---- MODULE Spec2Model ----
(***************************************************************************)
(* Model of AnilistApi (src/app/services/title/anilist/anilist_api.py):    *)
(* a client that owns a lazily created HTTP session, sends GraphQL queries *)
(* to one endpoint and maps the responses to TitlePreview / TitleRelation  *)
(* records.                                                                *)
(*                                                                         *)
(* The client runs on one asyncio event loop: the code between two awaits  *)
(* of a coroutine runs without interleaving.  A lookup has two steps: the  *)
(* call up to the suspension in `await self.session.post(...)`, and the    *)
(* rest of the coroutine once the response is there (the status checks,    *)
(* the read of the body and the construction of the result touch no state  *)
(* of the client).  close() has the step up to `await session.close()`,    *)
(* in which the session turns closed, and its return.                      *)
(***************************************************************************)
EXTENDS Integers, Sequences, FiniteSets, TLC

\* ------------------------------------------------------------------ bounds
NumTasks == 2          \* coroutines that call the client concurrently
MaxSessions == 2       \* sessions the client may create in one run
MaxEdges == 2          \* relation edges in one upstream response
MaxMedia == 2          \* elements of Page.media in one upstream response

Tasks == 1..NumTasks
SessionIds == 1..MaxSessions

\* ------------------------------------------------------- Optional values
\* Optional[T]: None is the empty tuple, a present value v is <<v>>.
None == <<>>
Some(v) == <<v>>

\* --------------------------------------------------------------- escaping
\* A text is a sequence of one-character strings.
RECURSIVE escape(_)
escape(text) ==
    IF text = <<>> THEN <<>>
    ELSE LET c == Head(text)
             e == CASE c = "&" -> <<"&", "a", "m", "p", ";">>
                    [] c = "<" -> <<"&", "l", "t", ";">>
                    [] c = ">" -> <<"&", "g", "t", ";">>
                    [] OTHER   -> <<c>>
         IN e \o escape(Tail(text))

escape_html_tags_or_none(value) ==
    IF value = None THEN None ELSE Some(escape(value[1]))

\* ------------------------------------------------------ upstream records
\* Media objects as the upstream sends them; the fields have the types the
\* schemas accept (Optional[str] names, banner and description).
MediaA ==
    [id          |-> 1,
     title       |-> [english |-> Some(<<"<", "b", ">">>),
                      romaji  |-> Some(<<"a">>),
                      native  |-> None],
     format      |-> "MANGA",
     siteUrl     |-> "https://anilist.co/manga/1",
     bannerImage |-> None,
     description |-> Some(<<"a", "&", "<">>),
     genres      |-> <<"Action">>]

MediaB ==
    [id          |-> 2,
     title       |-> [english |-> None,
                      romaji  |-> Some(<<"&">>),
                      native  |-> Some(<<"x", ">">>)],
     format      |-> "NOVEL",
     siteUrl     |-> "https://anilist.co/manga/2",
     bannerImage |-> Some("https://img.anili.st/2"),
     description |-> None,
     genres      |-> <<>>]

MediaC ==
    [id          |-> 3,
     title       |-> [english |-> Some(<<"a">>),
                      romaji  |-> None,
                      native  |-> Some(<<"b">>)],
     format      |-> "MANGA",
     siteUrl     |-> "https://anilist.co/manga/3",
     bannerImage |-> Some("https://img.anili.st/3"),
     description |-> Some(<<"<", "i", ">">>),
     genres      |-> <<"Drama", "Comedy">>]

Medias == {MediaA, MediaB, MediaC}
TitleIds == {1, 2}
RelationTypes == {"SEQUEL", "ADAPTATION"}
Edges == [node : Medias, relationType : RelationTypes]

\* --------------------------------------------------------------- schemas
TitlePreview(id, english_name, romaji_name, native_name, title_format, url, banner_image_url, description, genres) ==
    [id               |-> id,
     english_name     |-> english_name,
     romaji_name      |-> romaji_name,
     native_name      |-> native_name,
     title_format     |-> title_format,
     url              |-> url,
     banner_image_url |-> banner_image_url,
     description      |-> description,
     genres           |-> genres]

TitleRelation(id, english_name, romaji_name, native_name, title_format, url, banner_image_url, description, genres, relation_type) ==
    [id               |-> id,
     english_name     |-> english_name,
     romaji_name      |-> romaji_name,
     native_name      |-> native_name,
     title_format     |-> title_format,
     url              |-> url,
     banner_image_url |-> banner_image_url,
     description      |-> description,
     genres           |-> genres,
     relation_type    |-> relation_type]

\* ------------------------------------------------------------- responses
\* A response is its status and its body.  A body that is no JSON document
\* of the expected shape is not wellformed: response.json() or a subscript
\* of its result raises, and the lookup does not catch that.
Statuses == {200, 404, 500, 503}
MalformedBody == [wellformed |-> FALSE, data |-> <<>>]
JsonBody(data) == [wellformed |-> TRUE, data |-> data]
NoResponse == [status |-> 0, body |-> MalformedBody]

SeqsUpTo(S, n) == UNION {[1..k -> S] : k \in 0..n}

MediaBodies == {JsonBody([Media |-> m]) : m \in Medias}
PageBodies == {JsonBody([Page |-> [media |-> l]]) : l \in SeqsUpTo(Medias, MaxMedia)}
RelationBodies == {JsonBody([Media |-> [relations |-> [edges |-> l]]]) : l \in SeqsUpTo(Edges, MaxEdges)}

Ops == {"title_preview_by_name", "title_preview_by_id", "title_preview_page_by_name", "title_relations_by_id"}

\* What the caller passes that the result may depend on: the title_id of
\* title_preview_by_id.  The search text, the page number and the id of
\* title_relations_by_id only go into the request's variables.
Args(o) == IF o = "title_preview_by_id" THEN TitleIds ELSE {0}

Bodies(o) ==
    {MalformedBody} \cup
    CASE o = "title_preview_page_by_name" -> PageBodies
      [] o = "title_relations_by_id"      -> RelationBodies
      [] OTHER                            -> MediaBodies

Responses(o) == [status : Statuses, body : Bodies(o)]

\* The responses of the concurrent runs: a status of each kind, with one
\* JSON body for each operation.
FewBodies(o) ==
    CASE o = "title_preview_page_by_name" -> {JsonBody([Page |-> [media |-> <<MediaA>>]])}
      [] o = "title_relations_by_id"      -> {JsonBody([Media |-> [relations |-> [edges |-> <<[node |-> MediaB, relationType |-> "SEQUEL"]>>]]])}
      [] OTHER                            -> {JsonBody([Media |-> MediaA])}

FewStatuses == {200, 404, 500}
FewResponses(o) == [status : FewStatuses, body : FewBodies(o)]

\* -------------------------------------------------------------- outcomes
\* How a call ends: kind is "return" or the exception raised, value what is
\* returned or the exception's payload, bodyRead whether response.text()
\* or response.json() was awaited.
Return(value) == [kind |-> "return", value |-> value, bodyRead |-> TRUE]
Raise(kind, value, bodyRead) == [kind |-> kind, value |-> value, bodyRead |-> bodyRead]

\* response.json() and the subscripts that follow it, on a body that is no
\* JSON document of the expected shape.
Uncaught == Raise("Error", <<>>, TRUE)

\* Variant of send_request_to_source whose test is `> 500`.
send_request_to_source_above_500(response) ==
    IF response.status > 500
    THEN Raise("ServerError", response.body, TRUE)
    ELSE [kind |-> "response", value |-> response, bodyRead |-> FALSE]

\* send_request_to_source, after the post: a response with a 5xx status
\* ends the call with ServerError(await response.text()); any other
\* response goes back to the lookup.
send_request_to_source(response) ==
    IF response.status >= 500
    THEN Raise("ServerError", response.body, TRUE)
    ELSE [kind |-> "response", value |-> response, bodyRead |-> FALSE]

title_preview_by_name(response) ==
    LET sent == send_request_to_source(response)
    IN IF sent.kind # "response" THEN sent
       ELSE IF response.status = 404 THEN Raise("TitleNotFound", <<>>, FALSE)
       ELSE IF ~response.body.wellformed THEN Uncaught
       ELSE LET data  == response.body.data.Media
                title == data.title
            IN Return(TitlePreview(data.id,
                                   escape_html_tags_or_none(title.english),
                                   escape_html_tags_or_none(title.romaji),
                                   escape_html_tags_or_none(title.native),
                                   data.format,
                                   data.siteUrl,
                                   data.bannerImage,
                                   escape_html_tags_or_none(data.description),
                                   data.genres))

\* Variant of title_preview_by_id that takes the id from the body.
title_preview_by_id_from_body(title_id, response) ==
    LET sent == send_request_to_source(response)
    IN IF sent.kind # "response" THEN sent
       ELSE IF response.status = 404 THEN Raise("TitleNotFound", <<>>, FALSE)
       ELSE IF ~response.body.wellformed THEN Uncaught
       ELSE LET data  == response.body.data.Media
                title == data.title
            IN Return(TitlePreview(data.id,
                                   escape_html_tags_or_none(title.english),
                                   escape_html_tags_or_none(title.romaji),
                                   escape_html_tags_or_none(title.native),
                                   data.format,
                                   data.siteUrl,
                                   data.bannerImage,
                                   escape_html_tags_or_none(data.description),
                                   data.genres))

title_preview_by_id(title_id, response) ==
    LET sent == send_request_to_source(response)
    IN IF sent.kind # "response" THEN sent
       ELSE IF response.status = 404 THEN Raise("TitleNotFound", <<>>, FALSE)
       ELSE IF ~response.body.wellformed THEN Uncaught
       ELSE LET data  == response.body.data.Media
                title == data.title
            IN Return(TitlePreview(title_id,
                                   escape_html_tags_or_none(title.english),
                                   escape_html_tags_or_none(title.romaji),
                                   escape_html_tags_or_none(title.native),
                                   data.format,
                                   data.siteUrl,
                                   data.bannerImage,
                                   escape_html_tags_or_none(data.description),
                                   data.genres))

\* Variant of title_preview_page_by_name that takes the last element of the page.
title_preview_page_by_name_last(response) ==
    LET sent == send_request_to_source(response)
    IN IF sent.kind # "response" THEN sent
       ELSE IF ~response.body.wellformed THEN Uncaught
       ELSE LET media == response.body.data.Page.media
            IN IF media = <<>> THEN Raise("TitleNotFound", <<>>, TRUE)
               ELSE LET data  == media[Len(media)]
                        title == data.title
                    IN Return(TitlePreview(data.id,
                                           escape_html_tags_or_none(title.english),
                                           escape_html_tags_or_none(title.romaji),
                                           escape_html_tags_or_none(title.native),
                                           data.format,
                                           data.siteUrl,
                                           data.bannerImage,
                                           escape_html_tags_or_none(data.description),
                                           data.genres))

title_preview_page_by_name(response) ==
    LET sent == send_request_to_source(response)
    IN IF sent.kind # "response" THEN sent
       ELSE IF ~response.body.wellformed THEN Uncaught
       ELSE LET media == response.body.data.Page.media
            IN IF media = <<>> THEN Raise("TitleNotFound", <<>>, TRUE)
               ELSE LET data  == media[1]
                        title == data.title
                    IN Return(TitlePreview(data.id,
                                           escape_html_tags_or_none(title.english),
                                           escape_html_tags_or_none(title.romaji),
                                           escape_html_tags_or_none(title.native),
                                           data.format,
                                           data.siteUrl,
                                           data.bannerImage,
                                           escape_html_tags_or_none(data.description),
                                           data.genres))

\* Variant of the loop that puts each TitleRelation in front of the list.
RECURSIVE relations_of_reversed(_)
relations_of_reversed(edges) ==
    IF edges = <<>> THEN <<>>
    ELSE LET edge  == Head(edges)
             node  == edge.node
             title == node.title
         IN relations_of_reversed(Tail(edges)) \o
            <<TitleRelation(node.id,
                            escape_html_tags_or_none(title.english),
                            escape_html_tags_or_none(title.romaji),
                            escape_html_tags_or_none(title.native),
                            node.format,
                            node.siteUrl,
                            node.bannerImage,
                            node.description,
                            node.genres,
                            edge.relationType)>>

\* The loop of title_relations_by_id: one TitleRelation for each edge, appended
\* in the order of the edges.
RECURSIVE relations_of(_)
relations_of(edges) ==
    IF edges = <<>> THEN <<>>
    ELSE LET edge  == Head(edges)
             node  == edge.node
             title == node.title
         IN <<TitleRelation(node.id,
                            escape_html_tags_or_none(title.english),
                            escape_html_tags_or_none(title.romaji),
                            escape_html_tags_or_none(title.native),
                            node.format,
                            node.siteUrl,
                            node.bannerImage,
                            node.description,
                            node.genres,
                            edge.relationType)>> \o relations_of(Tail(edges))

\* Variant of title_relations_by_id without the test for status 404.
title_relations_by_id_no_404(response) ==
    LET sent == send_request_to_source(response)
    IN IF sent.kind # "response" THEN sent
       ELSE IF ~response.body.wellformed THEN Uncaught
       ELSE Return(relations_of(response.body.data.Media.relations.edges))

title_relations_by_id(response) ==
    LET sent == send_request_to_source(response)
    IN IF sent.kind # "response" THEN sent
       ELSE IF response.status = 404 THEN Raise("TitleNotFound", <<>>, FALSE)
       ELSE IF ~response.body.wellformed THEN Uncaught
       ELSE Return(relations_of(response.body.data.Media.relations.edges))

Outcome(o, a, response) ==
    CASE o = "title_preview_by_name"      -> title_preview_by_name(response)
      [] o = "title_preview_by_id"        -> title_preview_by_id(a, response)
      [] o = "title_preview_page_by_name" -> title_preview_page_by_name(response)
      [] o = "title_relations_by_id"      -> title_relations_by_id(response)

\* ------------------------------------------------------------------ state
VARIABLES
    handle,     \* self._session: 0 for None, else the id of a session
    created,    \* how many sessions get_new_session has made; the ids are 1..created
    closed,     \* the sessions whose .closed is true
    pc,         \* where each task is: "idle", "post" (suspended in the post), "closing" (suspended in session.close())
    op,         \* the lookup a task is in
    arg,        \* the title id it was called with
    sess,       \* the session its request went out on, or the one it is closing
    result      \* how the last call of each task ended, until the task calls again

vars == <<handle, created, closed, pc, op, arg, sess, result>>

NoCall == [op |-> "none"]

Init ==
    /\ handle = 0
    /\ created = 0
    /\ closed = {}
    /\ pc = [t \in Tasks |-> "idle"]
    /\ op = [t \in Tasks |-> "none"]
    /\ arg = [t \in Tasks |-> 0]
    /\ sess = [t \in Tasks |-> 0]
    /\ result = [t \in Tasks |-> NoCall]

\* get_new_session: the id of the session it makes.
get_new_session == created + 1

\* Variants of the test of the session property: one that is always true,
\* one that leaves out `self._session.closed`.
NeedsNewSession_always == TRUE

NeedsNewSession_none_only == handle = 0

\* The test of the session property: no session yet, or a closed one.
NeedsNewSession == handle = 0 \/ handle \in closed

\* Variant of the session property that makes a session on every access.
session_always_new == get_new_session

\* The session property: what it returns, which it also leaves in self._session.
session == IF NeedsNewSession THEN get_new_session ELSE handle

\* Variant of the test of close() that leaves out `not session.closed`.
CloseNeeded_any_session(s) == s # 0

\* The test of close(): there is a session and it is not closed.
CloseNeeded(s) == s # 0 /\ s \notin closed

\* A lookup up to its first suspension: send_request_to_source reads
\* self.session and posts the request on it.
Call(t, o, a) ==
    /\ pc[t] = "idle"
    /\ session <= MaxSessions
    /\ handle' = session
    /\ created' = IF session > created THEN session ELSE created
    /\ closed' = closed
    /\ pc' = [pc EXCEPT ![t] = "post"]
    /\ op' = [op EXCEPT ![t] = o]
    /\ arg' = [arg EXCEPT ![t] = a]
    /\ sess' = [sess EXCEPT ![t] = session]
    /\ result' = [result EXCEPT ![t] = NoCall]

\* The rest of a lookup, from the response to its return or exception.
Respond(t, response) ==
    /\ pc[t] = "post"
    /\ result' = [result EXCEPT ![t] = [op |-> op[t], arg |-> arg[t], response |-> response, out |-> Outcome(op[t], arg[t], response)]]
    /\ pc' = [pc EXCEPT ![t] = "idle"]
    /\ op' = [op EXCEPT ![t] = "none"]
    /\ arg' = [arg EXCEPT ![t] = 0]
    /\ sess' = [sess EXCEPT ![t] = 0]
    /\ UNCHANGED <<handle, created, closed>>

\* The post fails (connection refused, timeout, session closed under it):
\* the exception goes to the caller as it is.
TransportFailure(t) ==
    /\ pc[t] = "post"
    /\ result' = [result EXCEPT ![t] = [op |-> op[t], arg |-> arg[t], response |-> NoResponse, out |-> Raise("Error", <<>>, FALSE)]]
    /\ pc' = [pc EXCEPT ![t] = "idle"]
    /\ op' = [op EXCEPT ![t] = "none"]
    /\ arg' = [arg EXCEPT ![t] = 0]
    /\ sess' = [sess EXCEPT ![t] = 0]
    /\ UNCHANGED <<handle, created, closed>>

\* What close() leaves behind for its caller: whether it called
\* session.close(), and that it returned.
CloseRecord(invoked) ==
    [op |-> "close", invoked |-> invoked, out |-> [kind |-> "return", value |-> <<>>, bodyRead |-> FALSE]]

\* close() up to its suspension: with an open session it calls
\* session.close(), which marks the session closed before it suspends;
\* without one it returns at once.
Close(t) ==
    /\ pc[t] = "idle"
    /\ IF CloseNeeded(handle)
       THEN /\ closed' = closed \cup {handle}
            /\ pc' = [pc EXCEPT ![t] = "closing"]
            /\ op' = [op EXCEPT ![t] = "close"]
            /\ sess' = [sess EXCEPT ![t] = handle]
            /\ result' = [result EXCEPT ![t] = NoCall]
       ELSE /\ result' = [result EXCEPT ![t] = CloseRecord(FALSE)]
            /\ UNCHANGED <<closed, pc, op, sess>>
    /\ UNCHANGED <<handle, created, arg>>

\* session.close() is done and close() returns.
CloseReturn(t) ==
    /\ pc[t] = "closing"
    /\ result' = [result EXCEPT ![t] = CloseRecord(TRUE)]
    /\ pc' = [pc EXCEPT ![t] = "idle"]
    /\ op' = [op EXCEPT ![t] = "none"]
    /\ sess' = [sess EXCEPT ![t] = 0]
    /\ UNCHANGED <<handle, created, closed, arg>>

\* Someone else who holds a session of the client closes it.
ExternalClose ==
    /\ \E s \in (1..created) \ closed : closed' = closed \cup {s}
    /\ UNCHANGED <<handle, created, pc, op, arg, sess, result>>

\* A task starts one of the four lookups.
LookupCall(t) == \E o \in Ops : \E a \in Args(o) : Call(t, o, a)

\* The upstream answers a lookup.
LookupEnd(t) == \E response \in FewResponses(op[t]) : Respond(t, response)

LookupEndAny(t) == \E response \in Responses(op[t]) : Respond(t, response)

\* Concurrent use: the tasks interleave at their suspensions.
Next ==
    \/ \E t \in Tasks : LookupCall(t)
    \/ \E t \in Tasks : LookupEnd(t)
    \/ \E t \in Tasks : TransportFailure(t)
    \/ \E t \in Tasks : Close(t)
    \/ \E t \in Tasks : CloseReturn(t)
    \/ ExternalClose

Spec == Init /\ [][Next]_vars

\* One caller that makes one call after the other.
Caller == CHOOSE t \in Tasks : TRUE

NextSeq ==
    \/ LookupCall(Caller)
    \/ LookupEndAny(Caller)
    \/ TransportFailure(Caller)
    \/ Close(Caller)
    \/ CloseReturn(Caller)
    \/ ExternalClose

SeqSpec == Init /\ [][NextSeq]_vars

\* ================================================================ claims
Returned(t, o) == result[t].op = o /\ result[t].out.kind = "return"

MarkupFree(text) == \A i \in 1..Len(text) : text[i] \notin {"<", ">"}

\* field is the escaped form of the upstream value raw (None for None).
IsEscapedOf(field, raw) ==
    IF raw = None THEN field = None
    ELSE /\ field # None
         /\ field[1] = escape(raw[1])
         /\ MarkupFree(field[1])

TextEscaped(record, media) ==
    /\ IsEscapedOf(record.english_name, media.title.english)
    /\ IsEscapedOf(record.romaji_name, media.title.romaji)
    /\ IsEscapedOf(record.native_name, media.title.native)
    /\ IsEscapedOf(record.description, media.description)

\* The fields a record takes from the Media object as they are.
TakenFrom(record, media) ==
    /\ record.title_format = media.format
    /\ record.url = media.siteUrl
    /\ record.banner_image_url = media.bannerImage
    /\ record.genres = media.genres

\* C1: in every record a lookup returns (the TitlePreview of the three
\* preview lookups, each TitleRelation of title_relations_by_id) the three
\* names and the description are the HTML-escaped form of the upstream text.
C1_ReturnedTextEscaped ==
    \A t \in Tasks :
        /\ Returned(t, "title_preview_by_name") =>
               TextEscaped(result[t].out.value, result[t].response.body.data.Media)
        /\ Returned(t, "title_preview_by_id") =>
               TextEscaped(result[t].out.value, result[t].response.body.data.Media)
        /\ Returned(t, "title_preview_page_by_name") =>
               TextEscaped(result[t].out.value, result[t].response.body.data.Page.media[1])
        /\ Returned(t, "title_relations_by_id") =>
               LET edges == result[t].response.body.data.Media.relations.edges
               IN \A i \in 1..Len(result[t].out.value) :
                      i <= Len(edges) => TextEscaped(result[t].out.value[i], edges[i].node)

\* C2: a lookup whose response has a status >= 500 ends with ServerError
\* that carries the body of the response; it returns nothing and does not
\* raise TitleNotFound.
C2_ServerErrorOn5xx ==
    \A t \in Tasks :
        (result[t].op \in Ops /\ result[t].response.status >= 500) =>
            /\ result[t].out.kind = "ServerError"
            /\ result[t].out.value = result[t].response.body

C2_Witness ==
    \E t \in Tasks :
        /\ result[t].op = "title_preview_page_by_name"
        /\ result[t].response.status = 500
        /\ result[t].response.body.wellformed
        /\ result[t].out.kind = "ServerError"

\* C3: on a response with status 404, title_preview_by_name,
\* title_preview_by_id and title_relations_by_id raise TitleNotFound and
\* have not read the body.
C3_NotFoundOn404 ==
    \A t \in Tasks :
        (/\ result[t].op \in {"title_preview_by_name", "title_preview_by_id", "title_relations_by_id"}
         /\ result[t].response.status = 404) =>
            /\ result[t].out.kind = "TitleNotFound"
            /\ ~result[t].out.bodyRead

C3_Witness ==
    \E t \in Tasks :
        /\ result[t].op = "title_relations_by_id"
        /\ result[t].response.status = 404
        /\ result[t].response.body.wellformed
        /\ result[t].out.kind = "TitleNotFound"

\* C4: title_preview_page_by_name, on a response with a status below 500
\* that carries a Page.media list, raises TitleNotFound exactly when the
\* list is empty and otherwise returns the TitlePreview of the first
\* element of the list.
C4_PageFirstOrNotFound ==
    \A t \in Tasks :
        (/\ result[t].op = "title_preview_page_by_name"
         /\ result[t].response.status < 500
         /\ result[t].response.body.wellformed) =>
            LET media == result[t].response.body.data.Page.media
                out   == result[t].out
            IN /\ (out.kind = "TitleNotFound") <=> (media = <<>>)
               /\ media # <<>> =>
                      /\ out.kind = "return"
                      /\ out.value.id = media[1].id
                      /\ TakenFrom(out.value, media[1])

C4_Witness ==
    \E t \in Tasks :
        /\ Returned(t, "title_preview_page_by_name")
        /\ Len(result[t].response.body.data.Page.media) = 2
        /\ result[t].response.body.data.Page.media[1].id # result[t].response.body.data.Page.media[2].id
        /\ result[t].out.value.id = result[t].response.body.data.Page.media[1].id

\* C5: title_relations_by_id, on a successful response with N edges, returns
\* N TitleRelation records, the i-th made from the i-th edge (its node's id,
\* its relationType); with no edge it returns the empty sequence.
C5_RelationsInOrder ==
    \A t \in Tasks :
        (/\ result[t].op = "title_relations_by_id"
         /\ result[t].response.status < 500
         /\ result[t].response.status # 404
         /\ result[t].response.body.wellformed) =>
            LET edges == result[t].response.body.data.Media.relations.edges
                out   == result[t].out
            IN /\ out.kind = "return"
               /\ Len(out.value) = Len(edges)
               /\ \A i \in 1..Len(edges) :
                      /\ out.value[i].id = edges[i].node.id
                      /\ out.value[i].relation_type = edges[i].relationType
                      /\ TakenFrom(out.value[i], edges[i].node)

C5_Witness ==
    \E t \in Tasks :
        /\ Returned(t, "title_relations_by_id")
        /\ Len(result[t].out.value) = MaxEdges
        /\ result[t].out.value[1].id # result[t].out.value[MaxEdges].id
        /\ result[t].out.value[1].relation_type # result[t].out.value[MaxEdges].relation_type

\* C6: the TitlePreview that title_preview_by_id(title_id) returns has the
\* id title_id, whatever the body of the response holds.
C6_IdIsCallersId ==
    \A t \in Tasks :
        Returned(t, "title_preview_by_id") => result[t].out.value.id = result[t].arg

C6_Witness ==
    \E t \in Tasks :
        /\ Returned(t, "title_preview_by_id")
        /\ result[t].response.body.data.Media.id # result[t].arg
        /\ result[t].out.value.id = result[t].arg

C8_SessionLifecycle ==
    /\ handle = 0 /\ created = 0
    /\ [][\A t \in Tasks :
              (pc[t] = "idle" /\ pc'[t] = "post") =>
                  /\ sess'[t] = handle'
                  /\ handle' \in 1..created'
                  /\ handle' \notin closed'
                  /\ (handle # 0 /\ handle \notin closed) =>
                         (handle' = handle /\ created' = created)
                  /\ (handle = 0 \/ handle \in closed) =>
                         (created' = created + 1 /\ handle' = created')]_vars

C8_Witness ==
    \E t \in Tasks :
        /\ pc[t] = "post"
        /\ sess[t] = 2
        /\ handle = 2
        /\ 1 \in closed
        /\ 2 \notin closed

\* C9: while no session has been closed, lookups that run concurrently on a
\* client without a session make one session between them, and each sends
\* its request on that session.
C9_OneSessionForConcurrentCalls ==
    closed = {} =>
        /\ created <= 1
        /\ \A t \in Tasks : pc[t] = "post" => (sess[t] = 1 /\ handle = 1 /\ created = 1)

C9_Witness ==
    /\ closed = {}
    /\ created = 1
    /\ \A t \in Tasks : pc[t] = "post" /\ sess[t] = 1

\* C10: at any time at most one session the client made is open, and an
\* open one is the session in self._session; a session is made only when
\* self._session is None or closed.
C10_NoLeakedSession ==
    /\ [](\A s \in 1..created : s \notin closed => s = handle)
    /\ [][created' # created => (handle = 0 \/ handle \in closed)]_vars

C10_Witness ==
    \E t \in Tasks :
        /\ pc[t] = "closing"
        /\ sess[t] = 1
        /\ handle = 2
        /\ 2 \notin closed
        /\ \E u \in Tasks : pc[u] = "post"

====
